---- MODULE Spec2Model ----
(***************************************************************************)
(* AirTrafficMap (src/src/app/script.js): the refresh pipeline             *)
(* get -> getAirplaneMarkers -> removeLayer/addLayer -> setTimeout, and    *)
(* the click-driven popup overlay.                                         *)
(*                                                                         *)
(* Numbers are held in tenths (10.5 is 105), so that the fractional part   *)
(* of a coordinate or heading is visible to the conversions.  A number too *)
(* large for that is hi * 2^16 plus the tenths, so that 2^31 and the       *)
(* 32-bit wrap of x | 0 can be written.                                    *)
(***************************************************************************)
EXTENDS Integers, Sequences, FiniteSets, TLC

\* ------------------------------------------------------------------ bounds
\* longest states array of a telemetry payload in the refresh model
MaxStates == 2
\* longest states array given to getAirplaneMarkers in the parser model
MaxParseLen == 3
\* number of snapshot layers the refresh model lets the program create
MaxCycles == 3
\* number of lines the console keeps, number of unhandled rejections counted
MaxLog == 2

\* --------------------------------------------------------- program constants
AUTOREFRESH == 5000

\* ------------------------------------------------------------- JSON values
\* the width of x | 0 is 32 bits: 2^16 * 2^16
Two16 == 65536
Two15 == 32768

\* A JSON value as JavaScript sees it: t is the type tag, n the number in
\* tenths (type "number"), s the text (type "string"); a number's value is
\* hi * 2^16 + n / 10, with hi = 0 for all but the large ones.
JsValue(t, n, s) == [t |-> t, n |-> n, s |-> s, hi |-> 0]
Null == JsValue("null", 0, "")
Undefined == JsValue("undefined", 0, "")
Num(x) == JsValue("number", x, "")
Str(s) == JsValue("string", 0, s)
\* the number h * 2^16 + x / 10, for h > 0 and 0 <= x < 10 * 2^16
BigNum(h, x) == [t |-> "number", n |-> x, s |-> "", hi |-> h]

\* The result of a numeric coercion: NaN, or a number in tenths.
NaN == [nan |-> TRUE, v |-> 0, hi |-> 0]
Finite(x) == [nan |-> FALSE, v |-> x, hi |-> 0]

\* The strings the model feeds in, and what Number() reads them as.
StringToNumber(s) ==
  CASE s = "" -> Finite(0)
    [] s = "0" -> Finite(0)
    [] s = "20.3" -> Finite(203)
    [] s = "-7.5" -> Finite(-75)
    [] OTHER -> NaN

\* JavaScript Number(v)
Number(v) ==
  CASE v.t = "number" -> [nan |-> FALSE, v |-> v.n, hi |-> v.hi]
    [] v.t = "string" -> StringToNumber(v.s)
    [] v.t = "null" -> Finite(0)
    [] OTHER -> NaN

\* A gate that tests for null and undefined only (v == null).
FalsyNullOnly(v) == v.t = "null" \/ v.t = "undefined"

\* JavaScript !v
Falsy(v) ==
  \/ v.t = "null"
  \/ v.t = "undefined"
  \/ v.t = "number" /\ v.n = 0 /\ v.hi = 0
  \/ v.t = "string" /\ v.s = ""

\* Math.abs(dd): coerces, then drops the sign
MathAbs(v) ==
  LET x == Number(v)
  IN  IF x.nan THEN NaN ELSE [x EXCEPT !.v = IF x.v < 0 THEN -x.v ELSE x.v]

\* x | 0 for a non-negative x: NaN becomes 0, the fraction is cut off, and the
\* integer is reduced modulo 2^32 into -2^31 .. 2^31 - 1.
ToInt32(x) ==
  IF x.nan
  THEN 0
  ELSE LET int == x.v \div 10
           h == (x.hi + (int \div Two16)) % Two16
           signed == IF h >= Two15 THEN h - Two16 ELSE h
       IN  signed * Two16 + (int % Two16)

\* deg * (Math.PI / 180): the angle is kept as the fraction piNum/piDen of pi
decimalDegreesToRadians(dd) ==
  LET absDd == MathAbs(dd)
      deg == ToInt32(absDd)
  IN  [piNum |-> deg, piDen |-> 180]

\* ------------------------------------------------------- raw state vectors
\* state[i] of a JavaScript array held as a sequence: index i is element i+1,
\* an index past the end reads undefined.
At(state, i) == IF (i + 1) \in DOMAIN state THEN state[i + 1] ELSE Undefined

\* An OpenSky state vector with the five positions the program reads.
StateVector(callsign, origin, f5, f6, f10) ==
  << Null, Str(callsign), Str(origin), Null, Null, f5, f6, Null, Null, Null, f10 >>

\* A state vector cut off before position 10.
ShortVector(callsign, origin, f5, f6) ==
  << Null, Str(callsign), Str(origin), Null, Null, f5, f6 >>

\* new ol.Feature({geometry: new ol.geom.Point(fromLonLat(coords))}) with the
\* icon style's rotation; airplaneData is attached by the caller.
createPlaneIcon(coords, rotation) ==
  [geometry |-> coords, rotation |-> rotation, airplaneData |-> << >>]

\* The callback with unshift in place of push.
VisitStateUnshift(airplaneMarkers, state) ==
  LET lon == At(state, 5)
      lat == At(state, 6)
      rotation == At(state, 10)
  IN  IF Falsy(lat) \/ Falsy(lon) \/ Falsy(rotation)
      THEN airplaneMarkers
      ELSE LET planeIcon == createPlaneIcon(<< Number(lon), Number(lat) >>,
                                            decimalDegreesToRadians(rotation))
           IN  << [planeIcon EXCEPT !.airplaneData = state] >> \o airplaneMarkers

\* The body of the forEach callback: the marker list after visiting state.
VisitState(airplaneMarkers, state) ==
  LET lon == At(state, 5)
      lat == At(state, 6)
      rotation == At(state, 10)
  IN  IF Falsy(lat) \/ Falsy(lon) \/ Falsy(rotation)
      THEN airplaneMarkers
      ELSE LET planeIcon == createPlaneIcon(<< Number(lon), Number(lat) >>,
                                            decimalDegreesToRadians(rotation))
           IN  Append(airplaneMarkers, [planeIcon EXCEPT !.airplaneData = state])

RECURSIVE ForEachState(_, _, _)
ForEachState(states, i, airplaneMarkers) ==
  IF i > Len(states)
  THEN airplaneMarkers
  ELSE ForEachState(states, i + 1, VisitState(airplaneMarkers, states[i]))

\* A payload is [hasStates, states]; hasStates = FALSE is a body without a
\* states array (flightData.states.forEach then throws a TypeError).
Payload(states) == [hasStates |-> TRUE, states |-> states]
NoStates == [hasStates |-> FALSE, states |-> << >>]

getAirplaneMarkers(flightData) ==
  IF ~flightData.hasStates
  THEN [threw |-> TRUE, markers |-> << >>]
  ELSE [threw |-> FALSE, markers |-> ForEachState(flightData.states, 1, << >>)]


\* --------------------------------------------------------------- the inputs
\* The spec's scenario record, and records that differ from it where the
\* validity gate or the coercions look.
StatePool ==
  { StateVector("ABC123", "USA", Num(105), Num(203), Num(457)),
    StateVector("ZERO00", "USA", Num(105), Num(203), Num(0)),
    StateVector("TXT456", "France", Str("abc"), Num(203), Num(457)),
    StateVector("NEG321", "Chile", Num(-75), Str("20.3"), Num(-457)) }

\* The values one field of a state vector is drawn from in the parser model.
FieldValues ==
  { Null, Num(0), Num(105), Num(-457), Num(7), Str(""), Str("abc"), Str("20.3") }

\* The values of the heading field there: those, 2^31 + 45.7 and 2^32 + 45.7.
HeadingValues == FieldValues \cup { BigNum(Two15, 457), BigNum(Two16, 457) }

\* Every state vector over FieldValues, and every one cut off before position
\* 10, before position 6 and before position 5.
AllStates ==
  { StateVector("ABC123", "USA", f5, f6, f10) :
      f5 \in FieldValues, f6 \in FieldValues, f10 \in HeadingValues }
  \cup { ShortVector("CUT789", "Spain", f5, f6) :
      f5 \in FieldValues, f6 \in FieldValues }
  \cup { << Null, Str("CUT6"), Str("Spain"), Null, Null, f5 >> : f5 \in FieldValues }
  \cup { << Null, Str("CUT5"), Str("Spain") >>, << >> }

SeqsUpTo(S, n) == UNION { [1..k -> S] : k \in 0..n }

\* The bodies a telemetry response can carry in the refresh model.
Payloads == { Payload(s) : s \in SeqsUpTo(StatePool, MaxStates) } \cup { NoStates }

\* The bodies a response with a non-success status carries: an error object,
\* and bodies shaped like a snapshot.
ErrorBodies ==
  { NoStates, Payload(<< >>),
    Payload(<< StateVector("ABC123", "USA", Num(105), Num(203), Num(457)) >>) }

\* What get(AIR_DATA_URL) can resolve with: response.ok and the parsed body.
Responses ==
  { [ok |-> TRUE, data |-> d] : d \in Payloads }
  \cup { [ok |-> FALSE, data |-> d] : d \in ErrorBodies }

\* The payloads given to getAirplaneMarkers in the parser model.
ParseInputs ==
  { Payload(s) : s \in SeqsUpTo(StatePool, MaxParseLen) }
  \cup { Payload(<< r >>) : r \in AllStates }

\* Map coordinates of pointer events, in tenths: beside the scenario aircraft
\* within its icon, on the second aircraft, and on open sea.
Coordinates == { << 106, 203 >>, << -75, 203 >>, << 900, 900 >> }

\* Half the width of the drawn icon, in tenths of a degree at the model's zoom.
HitTolerance == 1

\* ------------------------------------------------------------------- state
VARIABLES
  map,          \* the ol.Map: created or not, and its snapshot layers in order
  popupPosition,\* popupOverlay's position: a coordinate, or NoPosition when hidden
  popupBody,    \* the four texts interpolated into popupBody.innerHTML
  cursor,       \* map.getTargetElement().style.cursor
  fetches,      \* the get() promises still pending, oldest first
  timers,       \* the armed refresh timers, oldest first
  flightData,   \* the payload most recently delivered by get(AIR_DATA_URL)
  httpOk,       \* whether the response that delivered it had a success status
  console,      \* what the startup chain's catch has logged
  unhandled,    \* number of rejections no handler received
  e,            \* the pointer or button event most recently dispatched
  layerTrace,   \* map.layers after each map call of the last processAirTrafficData
  nextLayerId   \* identity of the next ol.layer.Vector object created

vars == << map, popupPosition, popupBody, cursor, fetches, timers, flightData,
           httpOk, console, unhandled, e, layerTrace, nextLayerId >>

NoPosition == << >>
NoLayer == 0
NoEvent == [type |-> "none", coordinate |-> NoPosition, timeStamp |-> 0]

\* The event object handed to a handler; timeStamp (kept modulo 2) tells an
\* event from the one dispatched before it.
Event(type, coordinate) ==
  [type |-> type, coordinate |-> coordinate, timeStamp |-> 1 - e.timeStamp]
EmptyBody == [Callsign |-> "", From |-> "", Latitude |-> "", Longitude |-> ""]

\* String(v) as a template literal interpolates it
NumberToString(n) ==
  LET a == IF n < 0 THEN -n ELSE n
  IN  (IF n < 0 THEN "-" ELSE "") \o ToString(a \div 10)
        \o (IF a % 10 = 0 THEN "" ELSE "." \o ToString(a % 10))

\* the decimal digits of a large number: hi * 65536 + n / 10, worked out in
\* two pieces of four digits (65536 = 6 * 10^4 + 5536)
BigNumberToString(hi, n) ==
  LET low == hi * 5536 + (n \div 10)
      low4 == low % 10000
      pad == IF low4 < 10 THEN "000" ELSE IF low4 < 100 THEN "00"
             ELSE IF low4 < 1000 THEN "0" ELSE ""
  IN  ToString(hi * 6 + (low \div 10000)) \o pad \o ToString(low4)
        \o (IF n % 10 = 0 THEN "" ELSE "." \o ToString(n % 10))

ToText(v) ==
  CASE v.t = "string" -> v.s
    [] v.t = "number" /\ v.hi # 0 -> BigNumberToString(v.hi, v.n)
    [] v.t = "number" -> NumberToString(v.n)
    [] v.t = "null" -> "null"
    [] OTHER -> "undefined"

\* The popup with Latitude read from position 6 and Longitude from position 5.
setPopupContentSwapped(airplaneData) ==
  [Callsign |-> ToText(At(airplaneData, 1)),
   From |-> ToText(At(airplaneData, 2)),
   Latitude |-> ToText(At(airplaneData, 6)),
   Longitude |-> ToText(At(airplaneData, 5))]

\* The innerHTML setPopupContent writes, as its four interpolated texts.
setPopupContent(airplaneData) ==
  [Callsign |-> ToText(At(airplaneData, 1)),
   From |-> ToText(At(airplaneData, 2)),
   Latitude |-> ToText(At(airplaneData, 5)),
   Longitude |-> ToText(At(airplaneData, 6))]

\* An overlay built on one vector source shared by all cycles: the markers
\* are added to the features already there.
getFlightDataOverlayShared(airplaneMarkers) ==
  [id |-> nextLayerId,
   features |-> (IF map.layers = << >> THEN << >> ELSE map.layers[1].features)
                  \o airplaneMarkers]

\* new ol.layer.Vector({source: new ol.source.Vector({features: markers})})
getFlightDataOverlay(airplaneMarkers) ==
  [id |-> nextLayerId, features |-> airplaneMarkers]

\* A removeLayer that removes nothing.
removeLayerNothing(layers, layerId) == layers

\* map.removeLayer(layer): a layer that is not on the map is left alone
removeLayer(layers, layerId) == SelectSeq(layers, LAMBDA l : l.id # layerId)

\* map.addLayer(layer)
addLayer(layers, layer) == Append(layers, layer)

LayerIds(layers) == [i \in DOMAIN layers |-> layers[i].id]

\* The features drawn on the map, layer by layer.
RenderedFeatures ==
  { f \in UNION { { l.features[i] : i \in DOMAIN l.features } :
                  l \in { map.layers[j] : j \in DOMAIN map.layers } } : TRUE }

Abs(x) == IF x < 0 THEN -x ELSE x

\* map.getFeaturesAtPixel(pixel): the drawn features whose icon covers the
\* pixel; a feature at a NaN coordinate covers none.
getFeaturesAtPixel(pixel) ==
  { f \in RenderedFeatures :
      /\ ~f.geometry[1].nan /\ ~f.geometry[2].nan
      /\ f.geometry[1].hi = 0 /\ f.geometry[2].hi = 0
      /\ Abs(f.geometry[1].v - pixel[1]) <= HitTolerance
      /\ Abs(f.geometry[2].v - pixel[2]) <= HitTolerance }

\* map.hasFeatureAtPixel(pixel)
hasFeatureAtPixel(pixel) == getFeaturesAtPixel(pixel) # {}

RemoveAt(s, i) == [j \in 1..(Len(s) - 1) |-> IF j < i THEN s[j] ELSE s[j + 1]]

Log(line) == IF Len(console) < MaxLog THEN Append(console, line) ELSE console
Unhandled == IF unhandled < MaxLog THEN unhandled + 1 ELSE unhandled

\* Every chain ending in .catch(e => console.log(e)), the timer's included.
RejectAlwaysLogs(startup, error) ==
  console' = Log(error) /\ UNCHANGED unhandled

\* A startup chain without its .catch: no rejection is logged.
RejectNoCatch(startup, error) ==
  unhandled' = Unhandled /\ UNCHANGED console

\* A rejection travelling down a promise chain: the startup chain ends in
\* .catch(e => console.log(e)), the chain built in the timer callback in nothing.
Reject(startup, error) ==
  IF startup
  THEN console' = Log(error) /\ UNCHANGED unhandled
  ELSE unhandled' = Unhandled /\ UNCHANGED console

\* ---------------------------------------------------------------- startup
Init ==
  /\ map = [created |-> FALSE, layers |-> << >>]
  /\ popupPosition = NoPosition
  /\ popupBody = EmptyBody
  /\ cursor = "auto"
  /\ fetches = << [url |-> "USER_IP_DATA_URL", oldDataLayer |-> NoLayer, startup |-> TRUE] >>
  /\ timers = << >>
  /\ flightData = NoStates
  /\ httpOk = FALSE
  /\ console = << >>
  /\ unhandled = 0
  /\ e = NoEvent
  /\ layerTrace = << >>
  /\ nextLayerId = 1

\* get(USER_IP_DATA_URL) resolves with a geolocation object: getUserCoordinates,
\* drawInitialMap (map and overlay created, handlers registered), then the
\* first get(AIR_DATA_URL) is issued.
BootstrapResolves(i) ==
  /\ i \in DOMAIN fetches
  /\ fetches[i].url = "USER_IP_DATA_URL"
  /\ map' = [map EXCEPT !.created = TRUE]
  /\ popupPosition' = NoPosition
  /\ fetches' = Append(RemoveAt(fetches, i),
                       [url |-> "AIR_DATA_URL", oldDataLayer |-> NoLayer, startup |-> TRUE])
  /\ UNCHANGED << popupBody, cursor, timers, flightData, httpOk, console,
                  unhandled, e, layerTrace, nextLayerId >>

\* get(USER_IP_DATA_URL) resolves with null: getUserCoordinates throws reading
\* geoIpData.latitude, and the chain's catch logs it.
BootstrapResolvesNull(i) ==
  /\ i \in DOMAIN fetches
  /\ fetches[i].url = "USER_IP_DATA_URL"
  /\ fetches' = RemoveAt(fetches, i)
  /\ console' = Log("TypeError")
  /\ UNCHANGED << map, popupPosition, popupBody, cursor, timers, flightData,
                  httpOk, unhandled, e, layerTrace, nextLayerId >>

\* fetch() rejects (network failure) or response.json() rejects (a body that
\* is not JSON), for either URL.
FetchRejects(i) ==
  /\ i \in DOMAIN fetches
  /\ fetches' = RemoveAt(fetches, i)
  /\ Reject(fetches[i].startup, "FetchError")
  /\ UNCHANGED << map, popupPosition, popupBody, cursor, timers, flightData,
                  httpOk, e, layerTrace, nextLayerId >>

\* ---------------------------------------------------------- refresh cycle
\* processAirTrafficData with the old layer removed before the payload is parsed.
processAirTrafficDataRemoveFirst(data, oldDataLayer, startup) ==
  LET parsed == getAirplaneMarkers(data)
      flightDataOverlay == getFlightDataOverlay(parsed.markers)
      afterRemove == removeLayer(map.layers, oldDataLayer)
      afterAdd == addLayer(afterRemove, flightDataOverlay)
  IN  IF parsed.threw
      THEN /\ Reject(startup, "TypeError")
           /\ map' = [map EXCEPT !.layers = afterRemove]
           /\ layerTrace' = << LayerIds(afterRemove) >>
           /\ UNCHANGED << timers, nextLayerId >>
      ELSE /\ map' = [map EXCEPT !.layers = afterAdd]
           /\ layerTrace' = << LayerIds(afterRemove), LayerIds(afterAdd) >>
           /\ timers' = Append(timers, [oldDataLayer |-> flightDataOverlay.id,
                                        delay |-> AUTOREFRESH])
           /\ nextLayerId' = nextLayerId + 1
           /\ UNCHANGED << console, unhandled >>

\* processAirTrafficData without its setTimeout: the map is updated once.
processAirTrafficDataNoTimer(data, oldDataLayer, startup) ==
  LET parsed == getAirplaneMarkers(data)
      flightDataOverlay == getFlightDataOverlay(parsed.markers)
      afterRemove == removeLayer(map.layers, oldDataLayer)
      afterAdd == addLayer(afterRemove, flightDataOverlay)
  IN  IF parsed.threw
      THEN /\ Reject(startup, "TypeError")
           /\ UNCHANGED << map, timers, layerTrace, nextLayerId >>
      ELSE /\ map' = [map EXCEPT !.layers = afterAdd]
           /\ layerTrace' = << LayerIds(afterRemove), LayerIds(afterAdd) >>
           /\ nextLayerId' = nextLayerId + 1
           /\ UNCHANGED << timers, console, unhandled >>

\* processAirTrafficData with map.addLayer before map.removeLayer.
processAirTrafficDataAddFirst(data, oldDataLayer, startup) ==
  LET parsed == getAirplaneMarkers(data)
      flightDataOverlay == getFlightDataOverlay(parsed.markers)
      afterAdd == addLayer(map.layers, flightDataOverlay)
      afterRemove == removeLayer(afterAdd, oldDataLayer)
  IN  IF parsed.threw
      THEN /\ Reject(startup, "TypeError")
           /\ UNCHANGED << map, timers, layerTrace, nextLayerId >>
      ELSE /\ map' = [map EXCEPT !.layers = afterRemove]
           /\ layerTrace' = << LayerIds(afterAdd), LayerIds(afterRemove) >>
           /\ timers' = Append(timers, [oldDataLayer |-> flightDataOverlay.id,
                                        delay |-> AUTOREFRESH])
           /\ nextLayerId' = nextLayerId + 1
           /\ UNCHANGED << console, unhandled >>

\* processAirTrafficData(data, oldDataLayer), called from a chain that is the
\* startup chain or not.  getAirplaneMarkers throws before the map is touched;
\* otherwise the old layer is removed, the new one added and the timer armed.
processAirTrafficData(data, oldDataLayer, startup) ==
  LET parsed == getAirplaneMarkers(data)
      flightDataOverlay == getFlightDataOverlay(parsed.markers)
      afterRemove == removeLayer(map.layers, oldDataLayer)
      afterAdd == addLayer(afterRemove, flightDataOverlay)
  IN  IF parsed.threw
      THEN /\ Reject(startup, "TypeError")
           /\ UNCHANGED << map, timers, layerTrace, nextLayerId >>
      ELSE /\ map' = [map EXCEPT !.layers = afterAdd]
           /\ layerTrace' = << LayerIds(afterRemove), LayerIds(afterAdd) >>
           /\ timers' = Append(timers, [oldDataLayer |-> flightDataOverlay.id,
                                        delay |-> AUTOREFRESH])
           /\ nextLayerId' = nextLayerId + 1
           /\ UNCHANGED << console, unhandled >>

\* get(AIR_DATA_URL) resolves: response.json() delivered data, whatever the
\* response's status was, and the chain's next step processes it.
AirFetchResolves(i, ok, data) ==
  /\ i \in DOMAIN fetches
  /\ fetches[i].url = "AIR_DATA_URL"
  /\ fetches' = RemoveAt(fetches, i)
  /\ flightData' = data
  /\ httpOk' = ok
  /\ processAirTrafficData(data, fetches[i].oldDataLayer, fetches[i].startup)
  /\ UNCHANGED << popupPosition, popupBody, cursor, e >>

\* The callback of a setInterval: the timer stays armed after it has run.
TimerFiresKeepsTimer ==
  /\ timers # << >>
  /\ nextLayerId <= MaxCycles
  /\ Len(fetches) < MaxCycles
  /\ fetches' = Append(fetches, [url |-> "AIR_DATA_URL",
                                 oldDataLayer |-> Head(timers).oldDataLayer,
                                 startup |-> FALSE])
  /\ UNCHANGED << map, popupPosition, popupBody, cursor, timers, flightData,
                  httpOk, console, unhandled, e, layerTrace, nextLayerId >>

\* A timer callback that takes the old layer off the map before it fetches.
TimerFiresClearsMap ==
  /\ timers # << >>
  /\ nextLayerId <= MaxCycles
  /\ timers' = Tail(timers)
  /\ fetches' = Append(fetches, [url |-> "AIR_DATA_URL",
                                 oldDataLayer |-> Head(timers).oldDataLayer,
                                 startup |-> FALSE])
  /\ map' = [map EXCEPT !.layers = removeLayer(map.layers, Head(timers).oldDataLayer)]
  /\ UNCHANGED << popupPosition, popupBody, cursor, flightData, httpOk,
                  console, unhandled, e, layerTrace, nextLayerId >>

\* The setTimeout callback armed by processAirTrafficData runs: one get, whose
\* continuation holds the layer to replace and has no rejection handler.
TimerFires ==
  /\ timers # << >>
  /\ nextLayerId <= MaxCycles
  /\ timers' = Tail(timers)
  /\ fetches' = Append(fetches, [url |-> "AIR_DATA_URL",
                                 oldDataLayer |-> Head(timers).oldDataLayer,
                                 startup |-> FALSE])
  /\ UNCHANGED << map, popupPosition, popupBody, cursor, flightData, httpOk,
                  console, unhandled, e, layerTrace, nextLayerId >>

\* ------------------------------------------------------------ pointer events
\* A click handler that takes the entities it hits off their layer.
ClickRemovesIcon(coordinate) ==
  /\ map.created
  /\ e' = Event("click", coordinate)
  /\ LET icon == getFeaturesAtPixel(coordinate)
     IN  /\ map' = [map EXCEPT !.layers =
                      [j \in DOMAIN map.layers |->
                         [map.layers[j] EXCEPT !.features =
                            SelectSeq(map.layers[j].features,
                                      LAMBDA f : f \notin icon)]]]
         /\ IF icon = {}
            THEN popupPosition' = NoPosition /\ UNCHANGED popupBody
            ELSE \E plane \in icon :
                   /\ popupPosition' = coordinate
                   /\ popupBody' = setPopupContent(plane.airplaneData)
  /\ UNCHANGED << cursor, fetches, timers, flightData, httpOk, console,
                  unhandled, layerTrace, nextLayerId >>

\* The click handler without its early return: a miss leaves the overlay alone.
ClickMissKeeps(coordinate) ==
  /\ map.created
  /\ e' = Event("click", coordinate)
  /\ LET icon == getFeaturesAtPixel(coordinate)
     IN  IF icon = {}
         THEN UNCHANGED << popupPosition, popupBody >>
         ELSE \E plane \in icon :
                /\ popupPosition' = coordinate
                /\ popupBody' = setPopupContent(plane.airplaneData)
  /\ UNCHANGED << map, cursor, fetches, timers, flightData, httpOk, console,
                  unhandled, layerTrace, nextLayerId >>

\* The click handler with a hit-test that answers a miss with an empty array:
\* the overlay is placed at the click and reading icon[0].airplaneData throws.
ClickEmptyArray(coordinate) ==
  /\ map.created
  /\ e' = Event("click", coordinate)
  /\ LET icon == getFeaturesAtPixel(coordinate)
     IN  IF icon = {}
         THEN popupPosition' = coordinate /\ UNCHANGED popupBody
         ELSE \E plane \in icon :
                /\ popupPosition' = coordinate
                /\ popupBody' = setPopupContent(plane.airplaneData)
  /\ UNCHANGED << map, cursor, fetches, timers, flightData, httpOk, console,
                  unhandled, layerTrace, nextLayerId >>

\* map.on("click"): the pixel and the coordinate of the event are one place.
Click(coordinate) ==
  /\ map.created
  /\ e' = Event("click", coordinate)
  /\ LET icon == getFeaturesAtPixel(coordinate)
     IN  IF icon = {}
         THEN popupPosition' = NoPosition /\ UNCHANGED popupBody
         ELSE \E plane \in icon :
                /\ popupPosition' = coordinate
                /\ popupBody' = setPopupContent(plane.airplaneData)
  /\ UNCHANGED << map, cursor, fetches, timers, flightData, httpOk, console,
                  unhandled, layerTrace, nextLayerId >>

\* A pointermove handler that also hides the overlay when off every entity.
PointerMoveHidesOverlay(coordinate) ==
  /\ map.created
  /\ e' = Event("pointermove", coordinate)
  /\ cursor' = IF hasFeatureAtPixel(coordinate) THEN "pointer" ELSE "auto"
  /\ popupPosition' = IF hasFeatureAtPixel(coordinate) THEN popupPosition ELSE NoPosition
  /\ UNCHANGED << map, popupBody, fetches, timers, flightData,
                  httpOk, console, unhandled, layerTrace, nextLayerId >>

\* map.on("pointermove")
PointerMove(coordinate) ==
  /\ map.created
  /\ e' = Event("pointermove", coordinate)
  /\ cursor' = IF hasFeatureAtPixel(coordinate) THEN "pointer" ELSE "auto"
  /\ UNCHANGED << map, popupPosition, popupBody, fetches, timers, flightData,
                  httpOk, console, unhandled, layerTrace, nextLayerId >>

\* A close handler that only blurs the button.
ClosePopupBlurOnly ==
  /\ map.created
  /\ e' = Event("close", NoPosition)
  /\ UNCHANGED << map, popupPosition, popupBody, cursor, fetches, timers,
                  flightData, httpOk, console, unhandled, layerTrace, nextLayerId >>

\* closePopupButton.onclick
ClosePopup ==
  /\ map.created
  /\ e' = Event("close", NoPosition)
  /\ popupPosition' = NoPosition
  /\ UNCHANGED << map, popupBody, cursor, fetches, timers, flightData, httpOk,
                  console, unhandled, layerTrace, nextLayerId >>

Next ==
  \/ \E i \in DOMAIN fetches : BootstrapResolves(i)
  \/ \E i \in DOMAIN fetches : BootstrapResolvesNull(i)
  \/ \E i \in DOMAIN fetches : FetchRejects(i)
  \/ \E i \in DOMAIN fetches, response \in Responses :
        AirFetchResolves(i, response.ok, response.data)
  \/ TimerFires
  \/ \E coordinate \in Coordinates : Click(coordinate)
  \/ \E coordinate \in Coordinates : PointerMove(coordinate)
  \/ ClosePopup

Spec == Init /\ [][Next]_vars

\* ------------------------------------------------- refresh without failures
\* The program when every request succeeds with a well-formed body.  The
\* browser runs a due timer callback and the network answers a pending
\* request, so these steps are taken if they stay possible; pointer events
\* may come or not.
GoodPayloads == Payloads \ { NoStates }

Bootstrapped == \E i \in DOMAIN fetches : BootstrapResolves(i)

Fetched ==
  \E i \in DOMAIN fetches, data \in GoodPayloads : AirFetchResolves(i, TRUE, data)

NextLive ==
  \/ Bootstrapped
  \/ Fetched
  \/ TimerFires
  \/ \E coordinate \in Coordinates : Click(coordinate)
  \/ \E coordinate \in Coordinates : PointerMove(coordinate)
  \/ ClosePopup

SpecLive ==
  /\ Init
  /\ [][NextLive]_vars
  /\ WF_vars(Bootstrapped)
  /\ WF_vars(Fetched)
  /\ WF_vars(TimerFires)

\* ------------------------------------------------------------ parser model
\* The program with its map drawn and the first telemetry fetch pending; the
\* payload that fetch is about to deliver is drawn from ParseInputs.
InitParse ==
  /\ map = [created |-> TRUE, layers |-> << >>]
  /\ popupPosition = NoPosition
  /\ popupBody = EmptyBody
  /\ cursor = "auto"
  /\ fetches = << [url |-> "AIR_DATA_URL", oldDataLayer |-> NoLayer, startup |-> TRUE] >>
  /\ timers = << >>
  /\ flightData \in ParseInputs
  /\ httpOk = TRUE
  /\ console = << >>
  /\ unhandled = 0
  /\ e = NoEvent
  /\ layerTrace = << >>
  /\ nextLayerId = 1

NextParse == \E i \in DOMAIN fetches : AirFetchResolves(i, TRUE, flightData)

SpecParse == InitParse /\ [][NextParse]_vars

TypeOK ==
  /\ map.created \in BOOLEAN
  /\ cursor \in {"auto", "pointer"}
  /\ unhandled \in 0..MaxLog
  /\ Len(console) <= MaxLog
  /\ nextLayerId \in 1..(MaxCycles + 1)

\* ================================================================= claims
AirFetches == SelectSeq(fetches, LAMBDA f : f.url = "AIR_DATA_URL")
AttachedIds == { map.layers[i].id : i \in DOMAIN map.layers }
Visible == popupPosition # NoPosition

\* The overlay's state as the viewer has it: nothing while hidden, else the
\* place and the content shown.
InspectionState ==
  IF popupPosition = NoPosition THEN << >> ELSE << popupPosition, popupBody >>

\* C1: at most one refresh cycle is in progress: the pending telemetry fetches
\* and the armed refresh timers number at most one in total, and a timer or a
\* fetch issued by a timer exists only once the layer it is to replace has
\* been attached by a completed render-swap.
OneRefreshCycle ==
  /\ Len(AirFetches) + Len(timers) <= 1
  /\ \A i \in DOMAIN timers : timers[i].oldDataLayer \in AttachedIds
  /\ \A i \in DOMAIN fetches :
       ~fetches[i].startup => fetches[i].oldDataLayer \in AttachedIds

\* a second refresh fetch is pending, issued after a completed first cycle
OneRefreshCycleWitness ==
  /\ Len(AirFetches) = 1
  /\ ~AirFetches[1].startup
  /\ timers = << >>
  /\ map.layers # << >>

\* C2: at most one snapshot layer is attached to the map, in every state and
\* after each map call inside processAirTrafficData.
AtMostOneSnapshotLayer ==
  /\ Len(map.layers) <= 1
  /\ \A i \in DOMAIN layerTrace : Len(layerTrace[i]) <= 1

\* a render-swap has replaced an attached layer by the next one
AtMostOneSnapshotLayerWitness ==
  /\ Len(layerTrace) = 2
  /\ layerTrace[1] = << >>
  /\ layerTrace[2] = << 2 >>
  /\ LayerIds(map.layers) = << 2 >>

\* C3: every rendered entity has a numeric (non-NaN) longitude, latitude and
\* heading.
RenderedEntitiesNumeric ==
  \A f \in RenderedFeatures :
    /\ ~f.geometry[1].nan
    /\ ~f.geometry[2].nan
    /\ f.rotation.piNum \in Int

\* a field that is missing (null, undefined) or the number zero
MissingOrZero(v) ==
  v.t = "null" \/ v.t = "undefined" \/ (v.t = "number" /\ v.n = 0 /\ v.hi = 0)

GateFieldMissing(state) ==
  \E pos \in {5, 6, 10} : MissingOrZero(At(state, pos))

\* C4: a record whose field at position 5, 6 or 10 is null, undefined or the
\* number zero has no entity in the snapshot made from its payload.
MissingOrZeroDropped ==
  \A i \in DOMAIN flightData.states :
    GateFieldMissing(flightData.states[i]) =>
      \A f \in RenderedFeatures : f.airplaneData # flightData.states[i]

\* a payload with a zero-heading record and a valid one has been rendered
MissingOrZeroDroppedWitness ==
  /\ Len(map.layers) = 1
  /\ Len(map.layers[1].features) = 1
  /\ \E i \in DOMAIN flightData.states :
       /\ At(flightData.states[i], 10) = Num(0)
       /\ ~MissingOrZero(At(flightData.states[i], 5))
       /\ ~MissingOrZero(At(flightData.states[i], 6))

\* a record the validity gate rejects
FailsGate(state) ==
  \E pos \in {5, 6, 10} :
    \/ MissingOrZero(At(state, pos))
    \/ At(state, pos) = Str("")

EmptySnapshotWitness ==
  /\ fetches = << >>
  /\ flightData.states = << >>
  /\ Len(map.layers) = 1
  /\ map.layers[1].features = << >>

\* C6: from the step in which a refresh cycle after the first fails, the map's
\* layers are never changed again, no timer is armed and no fetch is pending.
FrozenAfterRefreshFailure ==
  [][ (unhandled' > 0) =>
        (map' = map /\ timers' = << >> /\ fetches' = << >>) ]_vars

\* a later cycle has failed with a snapshot on the map
FrozenAfterRefreshFailureWitness ==
  /\ unhandled > 0
  /\ Len(map.layers) = 1
  /\ map.layers[1].features # << >>
  /\ ~flightData.hasStates

\* C7: a click that hits no rendered entity leaves the overlay hidden and the
\* inspection state empty.
MissClickHides ==
  [][ (e' # e /\ e'.type = "click" /\ getFeaturesAtPixel(e'.coordinate) = {}) =>
        (popupPosition' = NoPosition /\ InspectionState' = << >>) ]_vars

\* a miss click, with entities on the map and an earlier selection's content
\* still in the hidden popup
MissClickHidesWitness ==
  /\ e.type = "click"
  /\ getFeaturesAtPixel(e.coordinate) = {}
  /\ RenderedFeatures # {}
  /\ popupBody # EmptyBody
  /\ popupPosition = NoPosition

\* C8: the close action hides the overlay whatever the state, and a close
\* that follows a close changes nothing but the event.
CloseHidesIdempotent ==
  [][ (e' # e /\ e'.type = "close") =>
        /\ popupPosition' = NoPosition
        /\ (e.type = "close" =>
              UNCHANGED << map, popupPosition, popupBody, cursor, fetches, timers,
                           flightData, httpOk, console, unhandled, layerTrace,
                           nextLayerId >>) ]_vars

\* the overlay was closed after an entity had been shown
CloseHidesIdempotentWitness ==
  /\ e.type = "close"
  /\ popupPosition = NoPosition
  /\ popupBody # EmptyBody

\* C9: the overlay becomes visible, moves or changes its content only in a
\* click step, and then shows an entity of the snapshot rendered at that
\* click; a visible overlay always shows some entity's content.
SelectionFromLiveSnapshot ==
  /\ [](Visible => popupBody # EmptyBody)
  /\ [][ (popupBody' # popupBody \/ (Visible' /\ popupPosition' # popupPosition)) =>
           /\ e' # e /\ e'.type = "click"
           /\ map' = map
           /\ \E f \in RenderedFeatures :
                popupBody' = setPopupContent(f.airplaneData) ]_vars

\* the overlay is open on an entity that the current snapshot no longer has
SelectionFromLiveSnapshotWitness ==
  /\ Visible
  /\ map.layers # << >>
  /\ \A f \in RenderedFeatures : popupBody # setPopupContent(f.airplaneData)

\* C10: a click that hits an entity puts the overlay at the click's coordinate
\* and fills it from a struck entity's raw record: Callsign from position 1,
\* From from position 2, Latitude from position 5 (the value parsed as the
\* entity's longitude), Longitude from position 6 (parsed as its latitude).
HitClickShowsRawRecord ==
  [][ (e' # e /\ e'.type = "click" /\ getFeaturesAtPixel(e'.coordinate) # {}) =>
        /\ popupPosition' = e'.coordinate
        /\ \E f \in getFeaturesAtPixel(e'.coordinate) :
             /\ popupBody'.Callsign = ToText(At(f.airplaneData, 1))
             /\ popupBody'.From = ToText(At(f.airplaneData, 2))
             /\ popupBody'.Latitude = ToText(At(f.airplaneData, 5))
             /\ popupBody'.Longitude = ToText(At(f.airplaneData, 6))
             /\ f.geometry[1] = Number(At(f.airplaneData, 5))
             /\ f.geometry[2] = Number(At(f.airplaneData, 6)) ]_vars

\* the scenario aircraft was clicked beside its position
HitClickShowsRawRecordWitness ==
  /\ e.type = "click"
  /\ e.coordinate = << 106, 203 >>
  /\ popupPosition = << 106, 203 >>
  /\ popupBody = [Callsign |-> "ABC123", From |-> "USA",
                  Latitude |-> "10.5", Longitude |-> "20.3"]
  /\ \E f \in RenderedFeatures :
       f.geometry = << Finite(105), Finite(203) >>

\* a startup failure has been logged
StartupFailed == console # << >>

\* C11 as stated: after a failure of the bootstrap request or of the first
\* telemetry fetch no snapshot is rendered, no timer is armed and the map has
\* not been created.
StartupFailureLeavesNoMap ==
  StartupFailed => (~map.created /\ map.layers = << >> /\ timers = << >>)

\* C11 amended: a startup chain that ends without arming a timer logs its
\* failure; after that no snapshot layer is attached, no timer is armed and no
\* fetch is pending, ever; the map does not exist if the bootstrap request
\* failed, and exists (drawn by drawInitialMap) if the first telemetry fetch did.
StartupFailureHalts ==
  /\ [](StartupFailed =>
          (map.layers = << >> /\ timers = << >> /\ fetches = << >>
           /\ layerTrace = << >> /\ nextLayerId = 1))
  /\ [][ ((\E i \in DOMAIN fetches : fetches[i].startup)
            /\ fetches' = << >> /\ timers' = << >>) =>
           /\ console' # console
           /\ map' = map
           /\ (fetches[1].url = "USER_IP_DATA_URL" => ~map'.created)
           /\ (fetches[1].url = "AIR_DATA_URL" => map'.created) ]_vars

\* the first telemetry fetch has failed with the map already drawn
StartupFailureHaltsWitness ==
  /\ StartupFailed
  /\ map.created
  /\ map.layers = << >>
  /\ fetches = << >>

\* C12: a response with a non-success status never leads to a render-swap or
\* to an armed timer.
NonSuccessNeverRendered ==
  [][ (Len(fetches') < Len(fetches) /\ ~httpOk') =>
        (map' = map /\ timers' = << >>) ]_vars

\* An integer of any size as the pair (multiple of 2^16, rest below 2^16).
SplitInt(hi, lo) == [hi |-> hi + (lo \div Two16), lo |-> lo % Two16]

\* floor(|h|) of a number h, as such a pair
FloorAbs(x) == SplitInt(x.hi, (IF x.v < 0 THEN -x.v ELSE x.v) \div 10)

\* C13: the heading of every entity made from a numeric raw heading h is
\* floor(|h|) degrees times pi/180.
HeadingIsFloorOfAbs ==
  \A f \in RenderedFeatures :
    LET h == Number(At(f.airplaneData, 10))
    IN  ~h.nan =>
          /\ f.rotation.piDen = 180
          /\ SplitInt(0, f.rotation.piNum) = FloorAbs(h)

\* The same for the headings below 2^31, where x | 0 does not wrap.
HeadingIsFloorOfAbsBelowWrap ==
  \A f \in RenderedFeatures :
    LET h == Number(At(f.airplaneData, 10))
    IN  (~h.nan /\ h.hi = 0) =>
          /\ f.rotation.piDen = 180
          /\ SplitInt(0, f.rotation.piNum) = FloorAbs(h)

\* a render-swap that replaced a layer has run
SwapReplacedLayer == Len(layerTrace) = 2 /\ nextLayerId > 2

\* C14 as stated: in a render-swap the new layer is attached first, so that
\* after the first of the two map calls both layers are on the map.
AttachBeforeDetach ==
  SwapReplacedLayer => Len(layerTrace[1]) = 2

\* C14 amended: in a render-swap the previous layer is detached first, so that
\* after the first map call no snapshot layer is on the map, and the new
\* layer is attached by the second.
DetachBeforeAttach ==
  (layerTrace # << >>) =>
    /\ Len(layerTrace) = 2
    /\ layerTrace[1] = << >>
    /\ layerTrace[2] = << nextLayerId - 1 >>

\* the second cycle's swap: layer 1 detached, then layer 2 attached
DetachBeforeAttachWitness ==
  /\ SwapReplacedLayer
  /\ layerTrace = << << >>, << 2 >> >>
  /\ timers # << >>

\* C15: once a render-swap has completed (its timer is armed), the map holds
\* one layer, created in that cycle, whose entities are exactly those made
\* from the cycle's payload: one per record passing the gate, in order, with
\* that record attached and its position read from it; the first swap found
\* nothing to detach.
SnapshotReplacesPrevious ==
  (timers # << >>) =>
    /\ flightData.hasStates
    /\ LayerIds(map.layers) = << nextLayerId - 1 >>
    /\ Head(timers).oldDataLayer = nextLayerId - 1
    /\ LET markers == map.layers[1].features
           passing == SelectSeq(flightData.states, LAMBDA st : ~FailsGate(st))
       IN  /\ Len(markers) = Len(passing)
           /\ \A i \in DOMAIN markers :
                /\ markers[i].airplaneData = passing[i]
                /\ markers[i].geometry = << Number(At(passing[i], 5)),
                                            Number(At(passing[i], 6)) >>
    /\ (nextLayerId = 2 => layerTrace = << << >>, << 1 >> >>)

\* the second cycle's swap has left exactly its own one-entity snapshot
SnapshotReplacesPreviousWitness ==
  /\ timers # << >>
  /\ nextLayerId = 3
  /\ Len(map.layers) = 1
  /\ Len(map.layers[1].features) = 1
  /\ map.layers[1].features[1].airplaneData[2] = Str("NEG321")

\* C16: when every fetch succeeds with a well-formed payload, a pending
\* telemetry fetch leads to a render-swap with the timer armed, an armed
\* timer leads to a new fetch, and so every one of the cycles the model
\* allows takes place.
SchedulerAlternates ==
  /\ (AirFetches # << >>) ~> (timers # << >> /\ Len(map.layers) = 1)
  /\ (timers # << >> /\ nextLayerId <= MaxCycles) ~> (AirFetches # << >>)
  /\ \A n \in 1..MaxCycles : <>(LayerIds(map.layers) = << n >>)

\* the scheduler is waiting after its second render-swap
SchedulerAlternatesWitness ==
  /\ timers # << >>
  /\ AirFetches = << >>
  /\ LayerIds(map.layers) = << 2 >>
  /\ console = << >>
  /\ unhandled = 0

\* a fetch issued by the timer callback is pending
RefreshPending == \E i \in DOMAIN fetches : ~fetches[i].startup

\* C17: while a refresh fetch is pending the map carries exactly the layer
\* that fetch is to replace, holding the entities of the last processed
\* payload; a click in that window changes neither the map nor the pending
\* fetch, and it hides the overlay if it hits none of those entities and
\* else shows one of the entities it hits at the place of the click.
ClickWhileFetching ==
  /\ [](RefreshPending =>
          /\ \A i \in DOMAIN fetches :
               LayerIds(map.layers) = << fetches[i].oldDataLayer >>
          /\ flightData.hasStates
          /\ [i \in DOMAIN map.layers[1].features |->
                map.layers[1].features[i].airplaneData]
               = SelectSeq(flightData.states, LAMBDA st : ~FailsGate(st)))
  /\ [][ (RefreshPending /\ e' # e /\ e'.type = "click") =>
           /\ map' = map
           /\ fetches' = fetches
           /\ timers' = timers
           /\ LET hits == getFeaturesAtPixel(e'.coordinate)
              IN  IF hits = {}
                  THEN popupPosition' = NoPosition /\ popupBody' = popupBody
                  ELSE /\ popupPosition' = e'.coordinate
                       /\ \E plane \in hits :
                            popupBody' = setPopupContent(plane.airplaneData) ]_vars

\* with the second cycle's fetch pending, a click has selected an entity of
\* the first cycle's snapshot
ClickWhileFetchingWitness ==
  /\ RefreshPending
  /\ e.type = "click"
  /\ Visible
  /\ LayerIds(map.layers) = << 1 >>
  /\ \E plane \in getFeaturesAtPixel(e.coordinate) :
       popupBody = setPopupContent(plane.airplaneData)

\* with a refresh fetch pending, a click off every entity has cleared the
\* overlay
MissWhileFetchingWitness ==
  /\ RefreshPending
  /\ e.type = "click"
  /\ ~Visible
  /\ popupBody # EmptyBody
  /\ RenderedFeatures # {}

\* C18: the overlay's position and content change only in the step of a click
\* or of a close: pointer moves, timer callbacks, fetch completions and
\* render-swaps leave them as they are.
OverlayChangesOnClickOrClose ==
  [][ (popupPosition' # popupPosition \/ popupBody' # popupBody
         \/ InspectionState' # InspectionState) =>
        (e' # e /\ e'.type \in {"click", "close"}) ]_vars

\* the overlay opened on an entity of the first snapshot is still open, with
\* that entity's content, after the second snapshot (where the entity is no
\* longer) has replaced the first and the pointer has moved
OverlayChangesOnClickOrCloseWitness ==
  /\ Visible
  /\ e.type = "pointermove"
  /\ LayerIds(map.layers) = << 2 >>
  /\ popupBody # EmptyBody
  /\ \A f \in RenderedFeatures : popupBody # setPopupContent(f.airplaneData)

\* C19: a pointer move, a click and a close leave the map's layers and the
\* scheduler (pending fetches, armed timer) as they are; the layers change
\* only in a render-swap, which takes a completed telemetry fetch and leaves
\* exactly one layer, a new one, on the map.
RenderedSetOwnedByRefresh ==
  /\ [][ (e' # e) =>
           UNCHANGED << map, fetches, timers, flightData, httpOk, console,
                        unhandled, layerTrace, nextLayerId >> ]_vars
  /\ [][ (map'.layers # map.layers) =>
           /\ e' = e
           /\ Len(AirFetches') = Len(AirFetches) - 1
           /\ nextLayerId' = nextLayerId + 1
           /\ LayerIds(map'.layers) = << nextLayerId >>
           /\ nextLayerId \notin AttachedIds
           /\ layerTrace' = << << >>, << nextLayerId >> >> ]_vars

\* a click has selected an entity of the second snapshot while the timer is
\* armed
RenderedSetOwnedByRefreshWitness ==
  /\ e.type = "click"
  /\ Visible
  /\ timers # << >>
  /\ LayerIds(map.layers) = << 2 >>
  /\ getFeaturesAtPixel(e.coordinate) # {}

\* C20: a failure is logged by the startup chain's catch only while no
\* render-swap has happened and no timer has been armed, and the step that
\* logs it ends a startup request; a refresh fetch that ends without a
\* render-swap (the fetch or the processing of its payload failed) logs
\* nothing and leaves an unhandled rejection.
OnlyStartupFailuresLogged ==
  /\ [](console # << >> =>
          (nextLayerId = 1 /\ timers = << >> /\ layerTrace = << >> /\ unhandled = 0))
  /\ [][ (console' # console) =>
           /\ \E i \in DOMAIN fetches : fetches[i].startup
           /\ ~RefreshPending
           /\ unhandled' = unhandled ]_vars
  /\ [][ (RefreshPending /\ ~RefreshPending' /\ map' = map) =>
           (console' = console /\ unhandled' = unhandled + 1) ]_vars
  /\ [][ (unhandled' # unhandled) => (RefreshPending /\ nextLayerId > 1) ]_vars

\* the fetch of the third cycle was rejected: nothing was logged and the
\* second snapshot stays
OnlyStartupFailuresLoggedWitness ==
  /\ unhandled > 0
  /\ console = << >>
  /\ flightData.hasStates
  /\ nextLayerId = 3
  /\ fetches = << >>
  /\ timers = << >>

\* the first payload could not be processed: the failure was logged
FirstPayloadFailureLoggedWitness ==
  /\ console = << "TypeError" >>
  /\ map.created
  /\ ~flightData.hasStates
  /\ httpOk

====
